---- MODULE Spec2Model ----
(***************************************************************************)
(* A model of pygitlog's Parser (src/__init__.py): the line loop of        *)
(* Parser.parse, the keyword dispatch of Parser._handleKeyValue, the       *)
(* developer interning of Parser._findDeveloperAndTimestamp and the parent *)
(* resolution pass of Parser._resolveCommits.                              *)
(*                                                                         *)
(* Python strings are sequences of one-character strings, so that split,   *)
(* find, join, replace and the regular expression "<.*>" are computed the  *)
(* way Python computes them.  Python dicts are sequences of [k, v] entries *)
(* in insertion order.  Commit and Developer objects live in two heaps     *)
(* (commitObjs, devObjs) and are referred to by their index, so that       *)
(* object identity is distinct from equality of fields.                    *)
(*                                                                         *)
(* parse(text) reads the lines of its text strictly left to right, one per *)
(* iteration of its loop, and nothing it does depends on a line it has not *)
(* reached.  The model therefore fixes each line of the text when the loop *)
(* reaches it: `lines` holds the lines read so far, and the text may end   *)
(* after any of them.  text.split("\n") gives at least one line (the empty *)
(* text is the single line ""), and no line holds a line break.            *)
(***************************************************************************)
EXTENDS Integers, Sequences, FiniteSets, TLC

\* ------------------------------------------------------------------ bounds

\* The longest input text, in lines.
MaxLines == 4

\* How many times _resolveCommits is called again after a parse has returned.
MaxExtraResolves == 1

\* ----------------------------------------------------------------- strings

SP == " "
LT == "<"
GT == ">"

\* str.find(c) for a one-character c: the 0-based index of the first
\* occurrence, -1 when there is none.
Find(s, c) ==
    IF \E k \in 1..Len(s) : s[k] = c
    THEN (CHOOSE k \in 1..Len(s) : s[k] = c /\ \A j \in 1..(k-1) : s[j] # c) - 1
    ELSE -1

\* str.rfind(c): the 0-based index of the last occurrence, -1 when none.
RFind(s, c) ==
    IF \E k \in 1..Len(s) : s[k] = c
    THEN (CHOOSE k \in 1..Len(s) : s[k] = c /\ \A j \in (k+1)..Len(s) : s[j] # c) - 1
    ELSE -1

\* str.split(c) for a one-character separator: never empty, "" gives [""].
RECURSIVE Split(_, _)
Split(s, c) ==
    LET k == Find(s, c)
    IN  IF k = -1 THEN << s >>
        ELSE << SubSeq(s, 1, k) >> \o Split(SubSeq(s, k + 2, Len(s)), c)

\* c.join(parts)
RECURSIVE Join(_, _)
Join(parts, c) ==
    IF parts = << >> THEN << >>
    ELSE IF Len(parts) = 1 THEN parts[1]
    ELSE parts[1] \o << c >> \o Join(Tail(parts), c)

\* str.replace(old, new) for a non-empty old: every non-overlapping
\* occurrence, left to right.
RECURSIVE Replace(_, _, _)
Replace(s, old, new) ==
    IF Len(s) < Len(old) THEN s
    ELSE IF SubSeq(s, 1, Len(old)) = old
         THEN new \o Replace(SubSeq(s, Len(old) + 1, Len(s)), old, new)
         ELSE << s[1] >> \o Replace(Tail(s), old, new)

\* re.findall("<.*>", s) on a string without line breaks: the greedy match
\* runs from the first "<" to the last ">" of the string, and nothing after
\* the last ">" can match again, so the list holds at most one match.
FindAllAngle(s) ==
    LET a == Find(s, LT)
        b == RFind(s, GT)
    IN  IF a # -1 /\ b > a THEN << SubSeq(s, a + 1, b + 1) >> ELSE << >>

\* ------------------------------------------------------------------- dicts

DictHas(d, k) == \E n \in 1..Len(d) : d[n].k = k

DictIdx(d, k) == CHOOSE n \in 1..Len(d) : d[n].k = k

DictGet(d, k) == d[DictIdx(d, k)].v

\* d[k] = v: a present key keeps its place, a new key goes last.
DictSet(d, k, v) ==
    IF DictHas(d, k)
    THEN [d EXCEPT ![DictIdx(d, k)] = [k |-> k, v |-> v]]
    ELSE Append(d, [k |-> k, v |-> v])

DictKeys(d) == [n \in 1..Len(d) |-> d[n].k]

DictKeySet(d) == { d[n].k : n \in 1..Len(d) }

\* ----------------------------------------------------------------- objects

\* Python's None, where a reference is expected (references start at 1).
None == 0

\* A parents value: the placeholder string, or a reference to a Commit.
StrVal(s) == [kind |-> "str", str |-> s, ref |-> None]
RefVal(c) == [kind |-> "Commit", str |-> << >>, ref |-> c]

\* Commit(hashKey=...): tree is << >> for None and << t >> once set.
NewCommit(hashKey) ==
    [hashKey |-> hashKey, author |-> None, committer |-> None,
     parents |-> << >>, tree |-> << >>]

\* Developer(name=..., email=...)
NewDeveloper(name, email) == [name |-> name, email |-> email, commits |-> << >>]

\* Developer.__str__
DevStr(d) == d.name \o << SP, LT >> \o d.email \o << GT >>

\* ------------------------------------------------------------------ Parser

KwCommit    == << "c", "o", "m", "m", "i", "t" >>
KwAuthor    == << "a", "u", "t", "h", "o", "r" >>
KwCommitter == << "c", "o", "m", "m", "i", "t", "t", "e", "r" >>
KwParent    == << "p", "a", "r", "e", "n", "t" >>
KwTree      == << "t", "r", "e", "e" >>

\* clear() without the statement that empties the intern table.
ClearKeepInterned(s) ==
    [s EXCEPT !.currentCommit = None,
              !.commits = << >>,
              !.authors = << >>,
              !.committers = << >>]

\* The Parser's fields after clear(), with the two object heaps and the
\* exception (if any) that left the running method: "" is no exception.
Clear(s) ==
    [s EXCEPT !.currentCommit = None,
              !.commits = << >>,
              !.authors = << >>,
              !.committers = << >>,
              !.developers = << >>]

\* An uncaught exception of class e leaves the method; the fields keep what
\* the statements before it wrote.
Raise(s, e) == [s EXCEPT !.err = e]

\* `parts` of _findDeveloperAndTimestamp after n calls of parts.pop().
Popped(text, n) == SubSeq(Split(text, SP), 1, Len(Split(text, SP)) - n)

\* The value the n-th parts.pop() returns.
PopValue(text, n) == Split(text, SP)[Len(Split(text, SP)) - n + 1]

\* devKey = ' '.join(parts)
DevKeyOf(text) == Join(Popped(text, 2), SP)

\* email = (re.findall("<.*>", devKey))[0].replace("<", "").replace(">", "")
EmailOf(devKey) ==
    Replace(Replace(FindAllAngle(devKey)[1], << LT >>, << >>), << GT >>, << >>)

\* name = devKey.replace(" <{0}>".format(email), "")
NameOf(devKey) ==
    Replace(devKey, << SP, LT >> \o EmailOf(devKey) \o << GT >>, << >>)

\* The else branch of the cache lookup: a new Developer, put into the cache.
MakeDeveloper(s, devKey) ==
    [s EXCEPT !.devObjs = Append(@, NewDeveloper(NameOf(devKey), EmailOf(devKey))),
              !.developers = DictSet(@, devKey, Len(s.devObjs) + 1)]

\* _findDeveloperAndTimestamp without the cache lookup: every call makes a
\* new Developer.
FindDeveloperNoCache(s, text) ==
    IF Popped(text, 1) = << >>
    THEN [st |-> Raise(s, "IndexError"), developer |-> None, timestamp |-> << >>]
    ELSE IF FindAllAngle(DevKeyOf(text)) = << >>
    THEN [st |-> Raise(s, "IndexError"), developer |-> None, timestamp |-> << >>]
    ELSE [st |-> MakeDeveloper(s, DevKeyOf(text)),
          developer |-> Len(s.devObjs) + 1,
          timestamp |-> << [epoch |-> PopValue(text, 2), timezone |-> PopValue(text, 1)] >>]

\* Parser._findDeveloperAndTimestamp: the state after the call, the
\* Developer it returns and the Timestamp's fields.
FindDeveloperAndTimestamp(s, text) ==
    IF Popped(text, 1) = << >>
    THEN \* the second parts.pop() finds the list empty
         [st |-> Raise(s, "IndexError"), developer |-> None, timestamp |-> << >>]
    ELSE IF DictHas(s.developers, DevKeyOf(text))
    THEN [st |-> s,
          developer |-> DictGet(s.developers, DevKeyOf(text)),
          timestamp |-> << [epoch |-> PopValue(text, 2), timezone |-> PopValue(text, 1)] >>]
    ELSE IF FindAllAngle(DevKeyOf(text)) = << >>
    THEN \* (re.findall(...))[0] on the empty list
         [st |-> Raise(s, "IndexError"), developer |-> None, timestamp |-> << >>]
    ELSE [st |-> MakeDeveloper(s, DevKeyOf(text)),
          developer |-> Len(s.devObjs) + 1,
          timestamp |-> << [epoch |-> PopValue(text, 2), timezone |-> PopValue(text, 1)] >>]

\* The commit branch without the insertion of the open commit.
HandleCommitNoClose(s, content) ==
    [s EXCEPT !.commitObjs = Append(@, NewCommit(content)),
              !.currentCommit = Len(s.commitObjs) + 1]

\* The commit branch written so that a hash already in the registry opens
\* the registry's Commit again instead of a new one.
HandleCommitReopen(s, content) ==
    LET s1 == IF s.currentCommit # None
              THEN [s EXCEPT !.commits =
                                 DictSet(@, s.commitObjs[s.currentCommit].hashKey,
                                         s.currentCommit)]
              ELSE s
    IN  IF DictHas(s1.commits, content)
        THEN [s1 EXCEPT !.currentCommit = DictGet(s1.commits, content)]
        ELSE [s1 EXCEPT !.commitObjs = Append(@, NewCommit(content)),
                        !.currentCommit = Len(s1.commitObjs) + 1]

\* The branch `keyword == "commit"`.
HandleCommit(s, content) ==
    LET s1 == IF s.currentCommit # None
              THEN [s EXCEPT !.commits =
                       DictSet(@, s.commitObjs[s.currentCommit].hashKey, s.currentCommit)]
              ELSE s
    IN  [s1 EXCEPT !.commitObjs = Append(@, NewCommit(content)),
                   !.currentCommit = Len(s.commitObjs) + 1]

\* The author branch without its last statement: the commit is not entered
\* in the Developer's commits map.
HandleAuthorNoRecord(s, content) ==
    LET r == FindDeveloperAndTimestamp(s, content)
    IN  IF r.st.err # "" THEN r.st
        ELSE
        LET key == DevStr(r.st.devObjs[r.developer])
            s1  == IF ~DictHas(r.st.authors, key)
                   THEN [r.st EXCEPT !.authors = DictSet(@, key, r.developer)]
                   ELSE r.st
        IN  IF s1.currentCommit = None
            THEN Raise(s1, "AttributeError")
            ELSE [s1 EXCEPT !.commitObjs[s1.currentCommit].author = r.developer]

\* The branch `keyword == "author"`.
HandleAuthor(s, content) ==
    LET r == FindDeveloperAndTimestamp(s, content)
    IN  IF r.st.err # "" THEN r.st
        ELSE
        LET key == DevStr(r.st.devObjs[r.developer])
            s1  == IF ~DictHas(r.st.authors, key)
                   THEN [r.st EXCEPT !.authors = DictSet(@, key, r.developer)]
                   ELSE r.st
        IN  IF s1.currentCommit = None
            THEN \* self._currentCommit.author = ... on None
                 Raise(s1, "AttributeError")
            ELSE
            LET cur   == s1.currentCommit
                s2    == [s1 EXCEPT !.commitObjs[cur].author = r.developer]
                owner == DictGet(s2.authors, key)
            IN  [s2 EXCEPT !.devObjs[owner].commits =
                               DictSet(@, s2.commitObjs[cur].hashKey, cur)]

\* The committer branch written as a copy of the author branch: it also
\* enters the commit in the Developer's commits map.
HandleCommitterRecords(s, content) ==
    LET r == FindDeveloperAndTimestamp(s, content)
    IN  IF r.st.err # "" THEN r.st
        ELSE
        LET key == DevStr(r.st.devObjs[r.developer])
            s1  == IF ~DictHas(r.st.committers, key)
                   THEN [r.st EXCEPT !.committers = DictSet(@, key, r.developer)]
                   ELSE r.st
        IN  IF s1.currentCommit = None
            THEN Raise(s1, "AttributeError")
            ELSE [s1 EXCEPT !.commitObjs[s1.currentCommit].committer = r.developer,
                            !.devObjs[r.developer].commits =
                                DictSet(@, s1.commitObjs[s1.currentCommit].hashKey,
                                        s1.currentCommit)]

\* The committer branch with a Developer of its own for every line, not
\* looked up in the intern table the author branch uses.
HandleCommitterOwnDeveloper(s, content) ==
    LET r == FindDeveloperNoCache(s, content)
    IN  IF r.st.err # "" THEN r.st
        ELSE
        LET key == DevStr(r.st.devObjs[r.developer])
            s1  == IF ~DictHas(r.st.committers, key)
                   THEN [r.st EXCEPT !.committers = DictSet(@, key, r.developer)]
                   ELSE r.st
        IN  IF s1.currentCommit = None
            THEN Raise(s1, "AttributeError")
            ELSE [s1 EXCEPT !.commitObjs[s1.currentCommit].committer = r.developer]

\* The branch `keyword == "committer"`.
HandleCommitter(s, content) ==
    LET r == FindDeveloperAndTimestamp(s, content)
    IN  IF r.st.err # "" THEN r.st
        ELSE
        LET key == DevStr(r.st.devObjs[r.developer])
            s1  == IF ~DictHas(r.st.committers, key)
                   THEN [r.st EXCEPT !.committers = DictSet(@, key, r.developer)]
                   ELSE r.st
        IN  IF s1.currentCommit = None
            THEN Raise(s1, "AttributeError")
            ELSE [s1 EXCEPT !.commitObjs[s1.currentCommit].committer = r.developer]

\* The parent branch without the registry lookup: every parent is entered
\* as a placeholder and left to the resolution pass.
HandleParentPlaceholder(s, content) ==
    IF s.currentCommit = None
    THEN Raise(s, "AttributeError")
    ELSE [s EXCEPT !.commitObjs[s.currentCommit].parents =
                       DictSet(@, content, StrVal(content))]

\* The branch `keyword == "parent"`.
HandleParent(s, content) ==
    IF s.currentCommit = None
    THEN Raise(s, "AttributeError")
    ELSE IF DictHas(s.commits, content)
         THEN [s EXCEPT !.commitObjs[s.currentCommit].parents =
                            DictSet(@, content, RefVal(DictGet(s.commits, content)))]
         ELSE [s EXCEPT !.commitObjs[s.currentCommit].parents =
                            DictSet(@, content, StrVal(content))]

\* The branch `keyword == "tree"`.
HandleTree(s, content) ==
    IF s.currentCommit = None
    THEN Raise(s, "AttributeError")
    ELSE [s EXCEPT !.commitObjs[s.currentCommit].tree = << content >>]

\* _handleKeyValue with the last test dropped: every keyword that is not
\* commit, author, committer or parent is taken for tree.
HandleKeyValueElseTree(s, keyword, content) ==
    IF keyword = KwCommit THEN HandleCommit(s, content)
    ELSE IF keyword = KwAuthor THEN HandleAuthor(s, content)
    ELSE IF keyword = KwCommitter THEN HandleCommitter(s, content)
    ELSE IF keyword = KwParent THEN HandleParent(s, content)
    ELSE HandleTree(s, content)

\* Parser._handleKeyValue
HandleKeyValue(s, keyword, content) ==
    IF keyword = KwCommit THEN HandleCommit(s, content)
    ELSE IF keyword = KwAuthor THEN HandleAuthor(s, content)
    ELSE IF keyword = KwCommitter THEN HandleCommitter(s, content)
    ELSE IF keyword = KwParent THEN HandleParent(s, content)
    ELSE IF keyword = KwTree THEN HandleTree(s, content)
    ELSE s

\* keyword = line[:spaceIdx]
Keyword(line) == SubSeq(line, 1, Find(line, SP))

\* content = line[spaceIdx+1:]
Content(line) == SubSeq(line, Find(line, SP) + 2, Len(line))

\* The loop body without the `continue`: with spaceIdx = -1 the keyword is
\* line[:-1] and the content is line[0:].
ParseLineNoContinue(s, line) ==
    IF Len(line) = 0 THEN s
    ELSE IF line[1] = SP THEN s
    ELSE IF Find(line, SP) = -1
         THEN HandleKeyValue(s, SubSeq(line, 1, Len(line) - 1), line)
         ELSE HandleKeyValue(s, Keyword(line), Content(line))

\* The body of `for line in lines` in Parser.parse.
ParseLine(s, line) ==
    IF Len(line) = 0 THEN s
    ELSE IF line[1] = SP THEN s
    ELSE IF Find(line, SP) = -1 THEN s
    ELSE HandleKeyValue(s, Keyword(line), Content(line))

\* The closing flush written so that a hash already in the registry keeps
\* its earlier Commit.
GrabLastKeepFirst(s) ==
    IF s.currentCommit = None
    THEN Raise(s, "AttributeError")
    ELSE IF DictHas(s.commits, s.commitObjs[s.currentCommit].hashKey)
         THEN [s EXCEPT !.currentCommit = None]
         ELSE [s EXCEPT !.commits =
                            DictSet(@, s.commitObjs[s.currentCommit].hashKey, s.currentCommit),
                        !.currentCommit = None]

\* "Grab the last commit": the two statements after the loop of Parser.parse.
GrabLast(s) ==
    IF s.currentCommit = None
    THEN \* self._currentCommit.hashKey on None
         Raise(s, "AttributeError")
    ELSE [s EXCEPT !.commits =
                       DictSet(@, s.commitObjs[s.currentCommit].hashKey, s.currentCommit),
                   !.currentCommit = None]

\* The (hashKey, parentKey) pairs the two nested loops of _resolveCommits
\* visit, in the order they visit them: the key sets do not change while
\* the loops run, only the values do.
RECURSIVE ResolvePairs(_, _)
ResolvePairs(s, n) ==
    IF n > Len(s.commits) THEN << >>
    ELSE LET ps == s.commitObjs[s.commits[n].v].parents
         IN  [m \in 1..Len(ps) |-> [hashKey |-> s.commits[n].k, parentKey |-> ps[m].k]]
             \o ResolvePairs(s, n + 1)

\* ResolveOne with the looked-up key mistaken: the placeholder is replaced
\* by the commit that holds it, self._commits[hashKey].
ResolveOneOwnKey(s, hashKey, parentKey) ==
    LET c == DictGet(s.commits, hashKey)
    IN  IF DictGet(s.commitObjs[c].parents, parentKey).kind = "str"
        THEN [s EXCEPT !.commitObjs[c].parents = DictSet(@, parentKey, RefVal(c))]
        ELSE s

\* ResolveOne with the isinstance test inverted: placeholders are left
\* alone and the resolved entries are looked up again.
ResolveOneInverted(s, hashKey, parentKey) ==
    LET c == DictGet(s.commits, hashKey)
    IN  IF DictGet(s.commitObjs[c].parents, parentKey).kind # "str"
        THEN IF DictHas(s.commits, parentKey)
             THEN [s EXCEPT !.commitObjs[c].parents =
                       DictSet(@, parentKey, RefVal(DictGet(s.commits, parentKey)))]
             ELSE Raise(s, "KeyError")
        ELSE s

\* One visit of the inner loop body of _resolveCommits.
ResolveOne(s, hashKey, parentKey) ==
    LET c == DictGet(s.commits, hashKey)
    IN  IF DictGet(s.commitObjs[c].parents, parentKey).kind = "str"
        THEN IF DictHas(s.commits, parentKey)
             THEN [s EXCEPT !.commitObjs[c].parents =
                       DictSet(@, parentKey, RefVal(DictGet(s.commits, parentKey)))]
             ELSE \* self._commits[parentKey] on a missing key
                  Raise(s, "KeyError")
        ELSE s

\* The loops of _resolveCommits left at the first replacement.
RECURSIVE ResolveFromBreak(_, _)
ResolveFromBreak(s, pairs) ==
    IF pairs = << >> \/ s.err # "" THEN s
    ELSE IF ResolveOne(s, pairs[1].hashKey, pairs[1].parentKey) # s
         THEN ResolveOne(s, pairs[1].hashKey, pairs[1].parentKey)
         ELSE ResolveFromBreak(s, Tail(pairs))

RECURSIVE ResolveFrom(_, _)
ResolveFrom(s, pairs) ==
    IF pairs = << >> \/ s.err # "" THEN s
    ELSE ResolveFrom(ResolveOne(s, pairs[1].hashKey, pairs[1].parentKey), Tail(pairs))

\* Parser._resolveCommits
ResolveCommits(s) == ResolveFrom(s, ResolvePairs(s, 1))

\* The fields of a Parser on which clear() has run and nothing else.
Cleared ==
    [currentCommit |-> None, commits |-> << >>, authors |-> << >>,
     committers |-> << >>, developers |-> << >>,
     commitObjs |-> << >>, devObjs |-> << >>, err |-> ""]

\* The loop of Parser.parse over the lines ls, left at the first exception.
RECURSIVE RunLines(_, _)
RunLines(s, ls) ==
    IF ls = << >> \/ s.err # "" THEN s
    ELSE RunLines(ParseLine(s, ls[1]), Tail(ls))

\* What follows the loop in Parser.parse.
AfterLoop(s) ==
    IF s.err # "" THEN s
    ELSE IF GrabLast(s).err # "" THEN GrabLast(s)
    ELSE ResolveCommits(GrabLast(s))

\* Parser.parse on the text whose lines are ls.
ParseOutcome(ls) == AfterLoop(RunLines(Cleared, ls))

\* ------------------------------------------------------------------ inputs

HashA == << "a" >>
HashB == << "b" >>
DevA  == << "A", SP, LT, "x", GT >>
DevC  == << "C", SP, LT, "y", GT >>
Stamp == << SP, "1", SP, "+", "0" >>

LnBlank         == << >>
LnMessage       == << SP, "m" >>
LnNoSpace       == KwCommit \o << "s" >>
LnCommitA       == KwCommit \o << SP >> \o HashA
LnCommitB       == KwCommit \o << SP >> \o HashB
LnParentA       == KwParent \o << SP >> \o HashA
LnParentB       == KwParent \o << SP >> \o HashB
LnTree          == KwTree \o << SP, "t" >>
LnAuthorA       == KwAuthor \o << SP >> \o DevA \o Stamp
LnAuthorC       == KwAuthor \o << SP >> \o DevC \o Stamp
LnCommitterA    == KwCommitter \o << SP >> \o DevA \o Stamp
LnAuthorNoEmail == KwAuthor \o << SP, "B" >> \o Stamp
LnUnknown       == << "g", "p", "g", "s", "i", "g", SP, "s" >>

\* The lines the input texts are made of.
LineSet ==
    { LnBlank, LnMessage, LnNoSpace, LnCommitA, LnCommitB, LnParentA, LnParentB,
      LnTree, LnAuthorA, LnAuthorC, LnCommitterA, LnAuthorNoEmail, LnUnknown }

\* ------------------------------------------------------------------- state

VARIABLES
    pc,             \* "new", "loop", "resolve", "done", or "raised"
    lines,          \* the lines of the text that `for line in lines` has read
    currentCommit,  \* self._currentCommit
    commits,        \* self._commits
    authors,        \* self._authors
    committers,     \* self._committers
    developers,     \* self._developers
    commitObjs,     \* the Commit objects created so far
    devObjs,        \* the Developer objects created so far
    err,            \* the exception that ended the last call, "" for none
    extraResolves,  \* calls of _resolveCommits after parse returned
    earlier,        \* what the earlier parse calls of this Parser left behind:
                    \* their number, the lines they read, the objects they made
    other           \* a second Parser of the process: its pc, lines and fields

vars == << pc, lines, currentCommit, commits, authors, committers, developers,
           commitObjs, devObjs, err, extraResolves, earlier, other >>

\* The Parser's fields and heaps as one record, as the operators take them.
State ==
    [currentCommit |-> currentCommit, commits |-> commits, authors |-> authors,
     committers |-> committers, developers |-> developers,
     commitObjs |-> commitObjs, devObjs |-> devObjs, err |-> err]

Become(s) ==
    /\ currentCommit' = s.currentCommit
    /\ commits' = s.commits
    /\ authors' = s.authors
    /\ committers' = s.committers
    /\ developers' = s.developers
    /\ commitObjs' = s.commitObjs
    /\ devObjs' = s.devObjs
    /\ err' = s.err

\* Parser(): __init__ sets the logger only; the registries exist from the
\* first clear() on.
Init ==
    /\ pc = "new"
    /\ lines = << >>
    /\ currentCommit = None
    /\ commits = << >>
    /\ authors = << >>
    /\ committers = << >>
    /\ developers = << >>
    /\ commitObjs = << >>
    /\ devObjs = << >>
    /\ err = ""
    /\ extraResolves = 0
    /\ earlier = [parses |-> 0, lines |-> 0, commitObjs |-> 0, devObjs |-> 0]
    /\ other = [pc |-> "new", lines |-> << >>, st |-> Cleared]

\* parse(text), up to the loop: clear().
ParseBegin ==
    /\ pc = "new"
    /\ Become(Clear(State))
    /\ lines' = << >>
    /\ pc' = "loop"
    /\ UNCHANGED << extraResolves, earlier, other >>

\* One iteration of `for line in lines`, on the next line of the text.
ParseStep ==
    /\ pc = "loop"
    /\ Len(lines) < MaxLines
    /\ \E line \in LineSet :
          /\ lines' = Append(lines, line)
          /\ Become(ParseLine(State, line))
          /\ pc' = IF ParseLine(State, line).err # "" THEN "raised" ELSE "loop"
    /\ UNCHANGED << extraResolves, earlier, other >>

\* The text has no further line (it has one at least): the last commit is
\* put into the registry.
ParseGrabLast ==
    /\ pc = "loop"
    /\ Len(lines) >= 1
    /\ Become(GrabLast(State))
    /\ pc' = IF GrabLast(State).err # "" THEN "raised" ELSE "resolve"
    /\ UNCHANGED << lines, extraResolves, earlier, other >>

\* The call of _resolveCommits that ends parse.
ParseResolve ==
    /\ pc = "resolve"
    /\ Become(ResolveCommits(State))
    /\ pc' = IF ResolveCommits(State).err # "" THEN "raised" ELSE "done"
    /\ UNCHANGED << lines, extraResolves, earlier, other >>

\* _resolveCommits called once more on a Parser whose parse has returned.
ResolveAgain ==
    /\ pc = "done"
    /\ extraResolves < MaxExtraResolves
    /\ Become(ResolveCommits(State))
    /\ pc' = IF ResolveCommits(State).err # "" THEN "raised" ELSE "done"
    /\ extraResolves' = extraResolves + 1
    /\ UNCHANGED << lines, earlier, other >>

Next ==
    \/ ParseBegin
    \/ ParseStep
    \/ ParseGrabLast
    \/ ParseResolve
    \/ ResolveAgain

Spec == Init /\ [][Next]_vars

\* --------------------------------------------- developer lines of any shape

\* The lines of a text of developer lines.
MaxDevLines == 3

\* Composite keys with no name, with two bracketed parts and with a word
\* after the bracketed part.
DevBare  == << LT, "x", GT >>
DevTwo   == << "A", SP, LT, "x", GT, SP, LT, "y", GT >>
DevTrail == << "A", SP, LT, "x", GT, SP, "j" >>

LnAuthorBare   == KwAuthor \o << SP >> \o DevBare \o Stamp
LnAuthorTwo    == KwAuthor \o << SP >> \o DevTwo \o Stamp
LnAuthorTrail  == KwAuthor \o << SP >> \o DevTrail \o Stamp
LnCommitterTwo == KwCommitter \o << SP >> \o DevTwo \o Stamp

\* The lines of the texts that exercise _findDeveloperAndTimestamp.
DevLineSet ==
    { LnCommitA, LnAuthorA, LnAuthorBare, LnAuthorTwo, LnAuthorTrail,
      LnCommitterA, LnCommitterTwo }

\* One iteration of `for line in lines`, on the next line of such a text.
ParseStepDev ==
    /\ pc = "loop"
    /\ Len(lines) < MaxDevLines
    /\ \E line \in DevLineSet :
          /\ lines' = Append(lines, line)
          /\ Become(ParseLine(State, line))
          /\ pc' = IF ParseLine(State, line).err # "" THEN "raised" ELSE "loop"
    /\ UNCHANGED << extraResolves, earlier, other >>

NextDev ==
    \/ ParseBegin
    \/ ParseStepDev
    \/ ParseGrabLast
    \/ ParseResolve

\* A Parser that parses one text of developer lines.
SpecDev == Init /\ [][NextDev]_vars

\* ------------------------------------------------ a Parser used repeatedly

\* The lines all parse calls of one run read, taken together.
MaxSharedLines == 4

\* The lines of the texts of such a run.
SharedLineSet ==
    { LnCommitA, LnCommitB, LnParentB, LnTree, LnAuthorA, LnCommitterA }

\* One iteration of `for line in lines`, on the next line of such a text.
ParseStepShared ==
    /\ pc = "loop"
    /\ earlier.lines + Len(lines) + Len(other.lines) < MaxSharedLines
    /\ \E line \in SharedLineSet :
          /\ lines' = Append(lines, line)
          /\ Become(ParseLine(State, line))
          /\ pc' = IF ParseLine(State, line).err # "" THEN "raised" ELSE "loop"
    /\ UNCHANGED << extraResolves, earlier, other >>

\* parse(text) on a Parser whose last parse call has returned or raised, up
\* to the loop: clear().  The objects of the earlier calls stay where they
\* are; nothing in clear() touches them.
ParseAgain ==
    /\ pc \in {"done", "raised"}
    /\ earlier.lines + Len(lines) < MaxSharedLines
    /\ Become([Clear(State) EXCEPT !.err = ""])
    /\ lines' = << >>
    /\ pc' = "loop"
    /\ earlier' = [parses |-> earlier.parses + 1,
                   lines |-> earlier.lines + Len(lines),
                   commitObjs |-> Len(commitObjs),
                   devObjs |-> Len(devObjs)]
    /\ UNCHANGED << extraResolves, other >>

NextReparse ==
    \/ ParseBegin
    \/ ParseStepShared
    \/ ParseGrabLast
    \/ ParseResolve
    \/ ParseAgain

\* A Parser whose parse is called again and again.
SpecReparse == Init /\ [][NextReparse]_vars

\* ------------------------------------------------- two Parsers, interleaved

\* The intern table and the Developer objects kept on the class instead of
\* the instance: every Parser works on the ones the first Parser has.
SelfWithClassInterner(mine, theirs) ==
    [mine EXCEPT !.developers = theirs.developers, !.devObjs = theirs.devObjs]

\* The fields a method of a Parser works on are those of self, which clear()
\* binds on the instance; the class has none.
Self(mine, theirs) == mine

\* parse(text) of the second Parser, up to the loop: clear().
OtherBegin ==
    /\ other.pc = "new"
    /\ other' = [pc |-> "loop", lines |-> << >>,
                 st |-> Clear(Self(other.st, State))]
    /\ UNCHANGED << pc, lines, currentCommit, commits, authors, committers,
                    developers, commitObjs, devObjs, err, extraResolves, earlier >>

\* One iteration of the loop of the second Parser.
OtherStep ==
    /\ other.pc = "loop"
    /\ earlier.lines + Len(lines) + Len(other.lines) < MaxSharedLines
    /\ \E line \in SharedLineSet :
          other' = [pc    |-> IF ParseLine(Self(other.st, State), line).err # ""
                              THEN "raised" ELSE "loop",
                    lines |-> Append(other.lines, line),
                    st    |-> ParseLine(Self(other.st, State), line)]
    /\ UNCHANGED << pc, lines, currentCommit, commits, authors, committers,
                    developers, commitObjs, devObjs, err, extraResolves, earlier >>

\* The text of the second Parser has no further line.
OtherGrabLast ==
    /\ other.pc = "loop"
    /\ Len(other.lines) >= 1
    /\ other' = [other EXCEPT
                    !.pc = IF GrabLast(Self(other.st, State)).err # ""
                           THEN "raised" ELSE "resolve",
                    !.st = GrabLast(Self(other.st, State))]
    /\ UNCHANGED << pc, lines, currentCommit, commits, authors, committers,
                    developers, commitObjs, devObjs, err, extraResolves, earlier >>

\* The call of _resolveCommits that ends the parse of the second Parser.
OtherResolve ==
    /\ other.pc = "resolve"
    /\ other' = [other EXCEPT
                    !.pc = IF ResolveCommits(Self(other.st, State)).err # ""
                           THEN "raised" ELSE "done",
                    !.st = ResolveCommits(Self(other.st, State))]
    /\ UNCHANGED << pc, lines, currentCommit, commits, authors, committers,
                    developers, commitObjs, devObjs, err, extraResolves, earlier >>

NextTwo ==
    \/ ParseBegin
    \/ ParseStepShared
    \/ ParseGrabLast
    \/ ParseResolve
    \/ OtherBegin
    \/ OtherStep
    \/ OtherGrabLast
    \/ OtherResolve

\* Two Parsers, each parsing one text, their steps in any order.
SpecTwo == Init /\ [][NextTwo]_vars

\* ------------------------------------------------------- reading the input

\* A line the loop hands to _handleKeyValue.
IsHeader(line) == Len(line) > 0 /\ line[1] # SP /\ Find(line, SP) # -1

IsKeyLine(line, kw) == IsHeader(line) /\ Keyword(line) = kw

\* The hashes of the `commit` lines of ls, in order.
RECURSIVE CommitLineHashes(_)
CommitLineHashes(ls) ==
    IF ls = << >> THEN << >>
    ELSE (IF IsKeyLine(ls[1], KwCommit) THEN << Content(ls[1]) >> ELSE << >>)
         \o CommitLineHashes(Tail(ls))

SeqToSet(q) == { q[n] : n \in 1..Len(q) }

\* The hashes of the `parent` lines of ls.
ParentLineHashes(ls) ==
    { Content(ls[n]) : n \in { m \in 1..Len(ls) : IsKeyLine(ls[m], KwParent) } }

\* No two `commit` lines of ls carry the same hash.
DistinctHashes(ls) == Cardinality(SeqToSet(CommitLineHashes(ls))) = Len(CommitLineHashes(ls))

\* The Commit objects the registry holds.
RegistryCommits == { commits[n].v : n \in 1..Len(commits) }

\* ------------------------------------------------------------------ claims

\* C1: parse of the empty text completes without error and leaves the
\* commit registry and the author registry empty.
C1_EmptyTextParses ==
    (pc \in {"done", "raised"} /\ lines = << LnBlank >>)
        => (pc = "done" /\ err = "" /\ commits = << >> /\ authors = << >>)

\* C2, as claimed: once parse has finished, every parents entry of every
\* commit record whose key P is the hash of a `commit` line of the input is
\* the Commit object the registry holds under P.
C2_ParentIsRegistryCommit ==
    pc = "done" =>
        \A c \in 1..Len(commitObjs) : \A n \in 1..Len(commitObjs[c].parents) :
            LET e == commitObjs[c].parents[n]
            IN  e.k \in SeqToSet(CommitLineHashes(lines))
                    => /\ DictHas(commits, e.k)
                       /\ e.v = RefVal(DictGet(commits, e.k))

\* C2, amended: the same, for an input whose commit hashes are pairwise
\* distinct.
C2_ParentIsRegistryCommitDistinct ==
    (pc = "done" /\ DistinctHashes(lines)) => C2_ParentIsRegistryCommit

\* C2 witness: a finished parse of distinct hashes in which a commit names a
\* parent whose record comes later in the text.
C2_Witness ==
    /\ pc = "done"
    /\ DistinctHashes(lines)
    /\ \E c \in 1..Len(commitObjs) : \E n \in 1..Len(commitObjs[c].parents) :
           /\ commitObjs[c].parents[n].v.kind = "Commit"
           /\ commitObjs[c].parents[n].v.ref > c

\* The parent hashes of the input that no `commit` line of it carries.
TruncatedParents == ParentLineHashes(lines) \ SeqToSet(CommitLineHashes(lines))

\* C3: when the input names a parent that has no `commit` record, and the
\* line loop and the closing flush went through, parse completes; the
\* entries of the missing parents stay placeholders and every other entry
\* is the registry's Commit.
C3_TruncatedHistoryCompletes ==
    (/\ pc \in {"done", "raised"}
     /\ TruncatedParents # {}
     /\ err \notin {"IndexError", "AttributeError"})
        => /\ pc = "done"
           /\ \A c \in RegistryCommits : \A n \in 1..Len(commitObjs[c].parents) :
                 LET e == commitObjs[c].parents[n]
                 IN  IF e.k \in TruncatedParents
                     THEN e.v = StrVal(e.k)
                     ELSE e.v = RefVal(DictGet(commits, e.k))

\* C4: after the resolution pass has completed, no parents value of a
\* registry commit whose key is a key of the registry is a placeholder
\* string: it is a reference to a Commit.
C4_ResolvedAreReferences ==
    pc = "done" =>
        \A c \in RegistryCommits : \A n \in 1..Len(commitObjs[c].parents) :
            LET e == commitObjs[c].parents[n]
            IN  DictHas(commits, e.k)
                    => e.v.kind = "Commit" /\ e.v.ref \in 1..Len(commitObjs)

\* C4 witness: a completed resolution that had a placeholder to replace (a
\* commit that is its own parent is never in the registry when its parent
\* line is read).
C4_Witness ==
    /\ pc = "done"
    /\ \E c \in RegistryCommits : \E n \in 1..Len(commitObjs[c].parents) :
           commitObjs[c].parents[n].v = RefVal(c)

\* The author lines of ls that were read with a commit open, in order: the
\* composite key of each, and the number and hash of the commit record it
\* belongs to (n commit lines read so far, the last one with hash h).
RECURSIVE AuthorEvents(_, _, _)
AuthorEvents(ls, n, h) ==
    IF ls = << >> THEN << >>
    ELSE IF IsKeyLine(ls[1], KwCommit)
         THEN AuthorEvents(Tail(ls), n + 1, Content(ls[1]))
    ELSE IF IsKeyLine(ls[1], KwAuthor) /\ n > 0
         THEN << [key |-> DevKeyOf(Content(ls[1])), commit |-> n, hash |-> h] >>
              \o AuthorEvents(Tail(ls), n, h)
    ELSE AuthorEvents(Tail(ls), n, h)

\* The first occurrences of q, in order.
RECURSIVE Dedup(_)
Dedup(q) ==
    IF q = << >> THEN << >>
    ELSE LET d == Dedup(SubSeq(q, 1, Len(q) - 1))
         IN  IF q[Len(q)] \in SeqToSet(d) THEN d ELSE Append(d, q[Len(q)])

\* The subsequence of the events with composite key k.
RECURSIVE EventsOf(_, _)
EventsOf(ev, k) ==
    IF ev = << >> THEN << >>
    ELSE (IF ev[1].key = k THEN << ev[1] >> ELSE << >>) \o EventsOf(Tail(ev), k)

\* The commit record of the last of the events that carries hash h.
LastCommitWith(ev, h) ==
    ev[CHOOSE n \in 1..Len(ev) :
          ev[n].hash = h /\ \A m \in (n+1)..Len(ev) : ev[m].hash # h].commit

C6_ResolveIdempotent ==
    ResolveCommits(Raise(State, "")).err = ""
        => ResolveCommits(ResolveCommits(Raise(State, ""))) = ResolveCommits(Raise(State, ""))

\* C6 witness: _resolveCommits has run a second time on a registry in which
\* the first run replaced a placeholder of a parent that comes later.
C6_Witness ==
    /\ pc = "done"
    /\ extraResolves >= 1
    /\ \E c \in RegistryCommits : \E n \in 1..Len(commitObjs[c].parents) :
           commitObjs[c].parents[n].v.ref > c

\* The registry that holds the first n commit records under the hashes hs.
RegistryOf(hs, n) == [m \in 1..n |-> [k |-> hs[m], v |-> m]]

\* C7: while the loop runs, the commit record read last is the open commit
\* and the record before it is in the registry under its hash; and for
\* pairwise distinct hashes the registry holds exactly the records before the
\* open one, and after the closing flush exactly the records of the input,
\* one per `commit` line, with no commit open.
C7_FlushOnCommitAndEnd ==
    (pc # "new" /\ err = "") =>
        LET hs == CommitLineHashes(lines)
        IN  /\ Len(commitObjs) = Len(hs)
            /\ \A n \in 1..Len(hs) : commitObjs[n].hashKey = hs[n]
            /\ pc = "loop" =>
                  /\ currentCommit = Len(hs)
                  /\ Len(hs) >= 2 => /\ DictHas(commits, hs[Len(hs) - 1])
                                     /\ DictGet(commits, hs[Len(hs) - 1]) = Len(hs) - 1
                  /\ DistinctHashes(lines) /\ Len(hs) >= 1
                        => commits = RegistryOf(hs, Len(hs) - 1)
            /\ pc \in {"resolve", "done"} =>
                  /\ currentCommit = None
                  /\ DistinctHashes(lines) => commits = RegistryOf(hs, Len(hs))

\* C7 witness: a finished parse of two commit records with distinct hashes.
C7_Witness ==
    /\ pc = "done"
    /\ DistinctHashes(lines)
    /\ Len(CommitLineHashes(lines)) = 2
    /\ Len(commits) = 2

\* A non-blank line that does not start with a space and holds no space.
IsNoSpaceLine(line) == Len(line) > 0 /\ line[1] # SP /\ Find(line, SP) = -1

\* ls without its lines that hold no space.
RECURSIVE WithoutNoSpace(_)
WithoutNoSpace(ls) ==
    IF ls = << >> THEN << >>
    ELSE (IF IsNoSpaceLine(ls[1]) THEN << >> ELSE << ls[1] >>)
         \o WithoutNoSpace(Tail(ls))

\* C8: a text with lines that hold no space is parsed as the text without
\* them: at every point of the parse the Parser's fields, its commits and
\* its developers are those the parse of the other text has there.
C8_NoSpaceLineSkipped ==
    (\E n \in 1..Len(lines) : IsNoSpaceLine(lines[n])) =>
        /\ pc = "loop" => State = RunLines(Cleared, WithoutNoSpace(lines))
        /\ pc = "resolve" => State = GrabLast(RunLines(Cleared, WithoutNoSpace(lines)))
        /\ pc \in {"done", "raised"} => State = ParseOutcome(WithoutNoSpace(lines))

\* C8 witness: a parse has finished whose text has a line without a space
\* after the first commit line.
C8_Witness ==
    /\ pc = "done"
    /\ \E n \in 2..Len(lines) : IsNoSpaceLine(lines[n]) /\ IsKeyLine(lines[1], KwCommit)

\* A header line whose keyword _handleKeyValue does not know.
IsUnknownKeyLine(line) ==
    /\ IsHeader(line)
    /\ Keyword(line) \notin {KwCommit, KwAuthor, KwCommitter, KwParent, KwTree}

\* C9: the iteration that reads a header line with an unknown keyword
\* changes no field of the Parser, no commit and no developer, and raises
\* nothing, whether a commit is open or not.
C9_UnknownKeywordIgnored ==
    [][(pc = "loop" /\ Len(lines') = Len(lines) + 1 /\ IsUnknownKeyLine(lines'[Len(lines')]))
          => (State' = State /\ pc' = "loop")]_vars

\* C9 witness: such a line has been read with no commit open.
C9_Witness ==
    /\ pc = "loop"
    /\ lines # << >>
    /\ IsUnknownKeyLine(lines[Len(lines)])
    /\ currentCommit = None

\* An author or committer line whose content has no "<...>".
IsDeveloperLineWithoutEmail(line) ==
    /\ IsHeader(line)
    /\ Keyword(line) \in {KwAuthor, KwCommitter}
    /\ FindAllAngle(Content(line)) = << >>

\* C10: once an author or committer line without an angle-bracketed email
\* has been read, the parse has ended in the failure MalformedDeveloperLine.
C10_MalformedDeveloperLineStructured ==
    (lines # << >> /\ IsDeveloperLineWithoutEmail(lines[Len(lines)]))
        => (pc = "raised" /\ err = "MalformedDeveloperLine")

\* The position of the last occurrence of h in hs.
LastIndexOf(hs, h) ==
    CHOOSE n \in 1..Len(hs) : hs[n] = h /\ \A m \in (n+1)..Len(hs) : hs[m] # h

\* C11: once the closing flush has run, no two entries of the commit
\* registry have the same hash key, the keys are the hashes of the `commit`
\* lines of the input, and the entry of each hash is the Commit of the last
\* `commit` line that carries it.
C11_LaterRecordOverwrites ==
    pc \in {"resolve", "done"} =>
        LET hs == CommitLineHashes(lines)
        IN  /\ \A n, m \in 1..Len(commits) : commits[n].k = commits[m].k => n = m
            /\ DictKeySet(commits) = SeqToSet(hs)
            /\ \A n \in 1..Len(commits) :
                  /\ commits[n].v = LastIndexOf(hs, commits[n].k)
                  /\ commitObjs[commits[n].v].hashKey = commits[n].k

\* C11 witness: a finished parse of an input with two commit records of one
\* hash, whose registry holds the second.
C11_Witness ==
    /\ pc = "done"
    /\ CommitLineHashes(lines) = << HashA, HashA >>
    /\ commits = << [k |-> HashA, v |-> 2] >>

\* The step of the loop of parse that reads a line of keyword kw.
IsStepOn(kw) ==
    /\ pc = "loop"
    /\ Len(lines') = Len(lines) + 1
    /\ IsKeyLine(lines'[Len(lines')], kw)

\* The composite keys of the author lines of ls.
AuthorLineKeys(ls) ==
    { DevKeyOf(Content(ls[n])) : n \in { m \in 1..Len(ls) : IsKeyLine(ls[m], KwAuthor) } }

\* In a Parser with intern table ds, authors registry au and Developer
\* objects os that has read the lines ls: a Developer whose composite key is
\* on no author line is no entry of the authors registry and has an empty
\* commits map.
CommitterOnlyIsNoAuthor(ds, au, os, ls) ==
    \A n \in 1..Len(ds) :
        ds[n].k \notin AuthorLineKeys(ls)
            => /\ \A m \in 1..Len(au) : au[m].v # ds[n].v
               /\ os[ds[n].v].commits = << >>

\* C12: the step that handles a committer line leaves the authors registry,
\* the commit registry and the commits map of every Developer as they were
\* (a Developer it creates has an empty commits map), adds at most the
\* line's Developer to the committers registry, and, when it does not
\* raise, makes that Developer the committer of the open commit; and after
\* any step, a Developer seen on committer lines only is no author and has
\* an empty commits map.
C12_CommitterLeavesAuthors ==
    [][/\ IsStepOn(KwCommitter) =>
            /\ authors' = authors
            /\ commits' = commits
            /\ \A d \in 1..Len(devObjs) : devObjs'[d].commits = devObjs[d].commits
            /\ \A d \in (Len(devObjs) + 1)..Len(devObjs') : devObjs'[d].commits = << >>
            /\ \/ committers' = committers
               \/ /\ Len(committers') = Len(committers) + 1
                  /\ SubSeq(committers', 1, Len(committers)) = committers
            /\ err' = "" =>
                  /\ currentCommit' = currentCommit
                  /\ LET d == commitObjs'[currentCommit].committer
                     IN  /\ d = DictGet(developers',
                                        DevKeyOf(Content(lines'[Len(lines')])))
                         /\ DictGet(committers', DevStr(devObjs'[d])) = d
                  /\ commitObjs' = [commitObjs EXCEPT ![currentCommit].committer =
                                        commitObjs'[currentCommit].committer]
       /\ CommitterOnlyIsNoAuthor(developers', authors', devObjs', lines')]_vars

\* C12 witness: a committer line has just been handled for an open commit
\* and its Developer, never seen on an author line, is in the committers
\* registry alone.
C12_Witness ==
    /\ pc = "loop"
    /\ lines # << >>
    /\ IsKeyLine(lines[Len(lines)], KwCommitter)
    /\ currentCommit # None
    /\ commitObjs[currentCommit].committer # None
    /\ Len(committers) = 1
    /\ authors = << >>

\* C13: a Commit that is not the open one (it has been put into the
\* registry, or overwritten there) keeps its hashKey, author, committer,
\* tree and the keys of its parents in every step; a step of the line loop
\* leaves it entirely as it was; and the one change any step makes to it
\* is that a placeholder among its parents values becomes a Commit
\* reference in a resolution pass.
C13_ClosedCommitIsFrozen ==
    [][\A c \in 1..Len(commitObjs) :
          (c # currentCommit \/ c \in RegistryCommits) =>
              /\ c <= Len(commitObjs')
              /\ commitObjs'[c].hashKey = commitObjs[c].hashKey
              /\ commitObjs'[c].author = commitObjs[c].author
              /\ commitObjs'[c].committer = commitObjs[c].committer
              /\ commitObjs'[c].tree = commitObjs[c].tree
              /\ DictKeys(commitObjs'[c].parents) = DictKeys(commitObjs[c].parents)
              /\ \A n \in 1..Len(commitObjs[c].parents) :
                    \/ commitObjs'[c].parents[n].v = commitObjs[c].parents[n].v
                    \/ /\ pc \in {"resolve", "done"}
                       /\ commitObjs[c].parents[n].v.kind = "str"
                       /\ commitObjs'[c].parents[n].v.kind = "Commit"
              /\ (pc = "loop" /\ Len(lines') = Len(lines) + 1)
                    => commitObjs'[c] = commitObjs[c]]_vars

\* C13 witness: a tree line has just been handled for the second commit
\* while the first, closed with a tree of its own, is in the registry.
C13_Witness ==
    /\ pc = "loop"
    /\ currentCommit = 2
    /\ commitObjs[2].tree # << >>
    /\ DictHas(commits, commitObjs[1].hashKey)
    /\ DictGet(commits, commitObjs[1].hashKey) = 1
    /\ commitObjs[1].tree # << >>

\* The part of s between its first "<" and the first ">" after it.
FirstBracketed(s) ==
    LET a == Find(s, LT) + 1
        b == CHOOSE k \in (a + 1)..Len(s) :
                 s[k] = GT /\ \A j \in (a + 1)..(k - 1) : s[j] # GT
    IN  SubSeq(s, a + 1, b - 1)

\* The developer lines of ls.
DeveloperLines(ls) ==
    { ls[n] : n \in { m \in 1..Len(ls) :
                        IsKeyLine(ls[m], KwAuthor) \/ IsKeyLine(ls[m], KwCommitter) } }

\* The tokens of a developer line's content without the last two, joined
\* by single spaces.
KeyTokensOf(line) ==
    LET parts == Split(Content(line), SP)
    IN  Join(SubSeq(parts, 1, Len(parts) - 2), SP)

\* C14: every Developer the parse has made is interned under the tokens of
\* its line without the last two (epoch and timezone) joined by single
\* spaces; its email is the first "<...>" part of that key without the
\* brackets; its name is the key without the suffix " <email>"; and
\* "name <email>" is the key again.
C14_DeveloperLineGrammar ==
    /\ \A n \in 1..Len(developers) :
          LET k == developers[n].k
              d == devObjs[developers[n].v]
          IN  /\ \E line \in DeveloperLines(lines) : k = KeyTokensOf(line)
              /\ d.email = FirstBracketed(k)
              /\ d.name \o << SP, LT >> \o d.email \o << GT >> = k
              /\ DevStr(d) = k
    /\ \A line \in DeveloperLines(lines) :
          err = "" => DictHas(developers, KeyTokensOf(line))

\* A reference counted from the b-th object on.
Shift(x, b) == IF x = None THEN None ELSE x - b

ShiftDict(d, b) == [n \in 1..Len(d) |-> [k |-> d[n].k, v |-> Shift(d[n].v, b)]]

ShiftParents(d, b) ==
    [n \in 1..Len(d) |->
        [k |-> d[n].k,
         v |-> IF d[n].v.kind = "Commit" THEN RefVal(d[n].v.ref - b) ELSE d[n].v]]

\* The fields of s and the objects made after the first cb Commits and db
\* Developers, with every reference counted from there on.
SinceClear(s, cb, db) ==
    [currentCommit |-> Shift(s.currentCommit, cb),
     commits       |-> ShiftDict(s.commits, cb),
     authors       |-> ShiftDict(s.authors, db),
     committers    |-> ShiftDict(s.committers, db),
     developers    |-> ShiftDict(s.developers, db),
     commitObjs    |-> [n \in 1..(Len(s.commitObjs) - cb) |->
                           [s.commitObjs[cb + n] EXCEPT
                               !.author = Shift(@, db),
                               !.committer = Shift(@, db),
                               !.parents = ShiftParents(@, cb)]],
     devObjs       |-> [n \in 1..(Len(s.devObjs) - db) |->
                           [s.devObjs[db + n] EXCEPT !.commits = ShiftDict(@, cb)]],
     err           |-> s.err]

\* No field, no registry entry and no object made after the first cb
\* Commits and db Developers refers to one of those.
NoneOfEarlier(s, cb, db) ==
    /\ s.currentCommit = None \/ s.currentCommit > cb
    /\ \A n \in 1..Len(s.commits) : s.commits[n].v > cb
    /\ \A n \in 1..Len(s.authors) : s.authors[n].v > db
    /\ \A n \in 1..Len(s.committers) : s.committers[n].v > db
    /\ \A n \in 1..Len(s.developers) : s.developers[n].v > db
    /\ \A c \in (cb + 1)..Len(s.commitObjs) :
          /\ s.commitObjs[c].author = None \/ s.commitObjs[c].author > db
          /\ s.commitObjs[c].committer = None \/ s.commitObjs[c].committer > db
          /\ \A n \in 1..Len(s.commitObjs[c].parents) :
                s.commitObjs[c].parents[n].v.kind = "Commit"
                    => s.commitObjs[c].parents[n].v.ref > cb
    /\ \A d \in (db + 1)..Len(s.devObjs) :
          \A n \in 1..Len(s.devObjs[d].commits) : s.devObjs[d].commits[n].v > cb

\* What parse on a new Parser has made of the lines ls when it stands at p.
FreshParseAt(p, ls) ==
    IF p = "loop" THEN RunLines(Cleared, ls)
    ELSE IF p = "resolve" THEN GrabLast(RunLines(Cleared, ls))
    ELSE ParseOutcome(ls)

\* C15: in a parse call that follows earlier ones on the same Parser,
\* whether they returned or raised, the current commit, the four registries
\* and the objects made since the call began are at every point what a new
\* Parser has at that point of the same text, and none of them refers to a
\* Commit or Developer of the earlier calls.
C15_ParseClearsPastResults ==
    earlier.parses >= 1 =>
        /\ NoneOfEarlier(State, earlier.commitObjs, earlier.devObjs)
        /\ SinceClear(State, earlier.commitObjs, earlier.devObjs)
               = FreshParseAt(pc, lines)

\* C15 witness: a second parse has returned with an author whose composite
\* key the first parse had interned as well.
C15_Witness ==
    /\ earlier.parses = 1
    /\ pc = "done"
    /\ earlier.devObjs >= 1
    /\ Len(authors) = 1
    /\ authors[1].v > earlier.devObjs
    /\ DevStr(devObjs[authors[1].v]) = DevStr(devObjs[1])

\* C16: with the steps of two Parsers interleaved in any order, each Parser
\* has at every point of its parse the current commit, registries and
\* objects that its own text gives a Parser running alone; so no step of
\* one has written, or taken anything from, the fields of the other.
C16_InterleavedParsersIndependent ==
    /\ pc # "new" => State = FreshParseAt(pc, lines)
    /\ other.pc # "new" => other.st = FreshParseAt(other.pc, other.lines)

\* C16 witness: both Parsers are inside their loops, on different texts,
\* and each has interned a Developer for the same composite key and opened
\* a commit.
C16_Witness ==
    /\ pc = "loop"
    /\ other.pc = "loop"
    /\ lines # other.lines
    /\ currentCommit # None
    /\ other.st.currentCommit # None
    /\ Len(developers) = 1
    /\ DictKeys(other.st.developers) = DictKeys(developers)

\* C17, as claimed: right after the step that handles `parent K` for an
\* open commit, before any resolution, the open commit's parents entry under
\* K is the Commit the registry held under K when the step began, or, when
\* the registry had no K then, the placeholder string K; and a parent that
\* names the open commit itself is a placeholder.
C17_ParentEntryAsClaimed ==
    [][(IsStepOn(KwParent) /\ currentCommit # None) =>
          LET K == Content(lines'[Len(lines')])
          IN  /\ DictGet(commitObjs'[currentCommit].parents, K) =
                     IF DictHas(commits, K)
                     THEN RefVal(DictGet(commits, K))
                     ELSE StrVal(K)
              /\ K = commitObjs[currentCommit].hashKey
                     => DictGet(commitObjs'[currentCommit].parents, K) = StrVal(K)]_vars

\* C17, amended: the step does not raise, leaves the registry and the open
\* commit in place, and the entry under K is the Commit the registry held
\* under K when the step began, or the placeholder string K when it held
\* none; a parent that names the open commit itself is a placeholder when
\* no earlier record of the same hash is in the registry.
C17_ParentEntryAtParseTime ==
    [][(IsStepOn(KwParent) /\ currentCommit # None) =>
          LET K == Content(lines'[Len(lines')])
          IN  /\ err' = ""
              /\ currentCommit' = currentCommit
              /\ commits' = commits
              /\ DictHas(commitObjs'[currentCommit].parents, K)
              /\ DictGet(commitObjs'[currentCommit].parents, K) =
                     IF DictHas(commits, K)
                     THEN RefVal(DictGet(commits, K))
                     ELSE StrVal(K)
              /\ (K = commitObjs[currentCommit].hashKey /\ ~DictHas(commits, K))
                     => DictGet(commitObjs'[currentCommit].parents, K) = StrVal(K)]_vars

\* C17 witness: a parent line that names the hash of the open commit has
\* just been handled while an earlier record of that hash was in the
\* registry, and the open commit holds that earlier Commit.
C17_Witness ==
    /\ pc = "loop"
    /\ lines # << >>
    /\ IsKeyLine(lines[Len(lines)], KwParent)
    /\ currentCommit # None
    /\ Content(lines[Len(lines)]) = commitObjs[currentCommit].hashKey
    /\ DictHas(commits, Content(lines[Len(lines)]))
    /\ DictGet(commitObjs[currentCommit].parents, Content(lines[Len(lines)]))
           = RefVal(DictGet(commits, Content(lines[Len(lines)])))
    /\ DictGet(commits, Content(lines[Len(lines)])) # currentCommit

\* No commit record of ls has two author lines.
AtMostOneAuthorLine(ls) ==
    LET ev == AuthorEvents(ls, 0, << >>)
    IN  \A i, j \in 1..Len(ev) : ev[i].commit = ev[j].commit => i = j

CommitterLineKeys(ls) ==
    { DevKeyOf(Content(ls[n])) :
        n \in { m \in 1..Len(ls) : IsKeyLine(ls[m], KwCommitter) } }

IsWellFormedField(line) ==
    \/ IsKeyLine(line, KwTree)
    \/ IsKeyLine(line, KwParent)
    \/ /\ IsKeyLine(line, KwAuthor) \/ IsKeyLine(line, KwCommitter)
       /\ Popped(Content(line), 1) # << >>
       /\ FindAllAngle(DevKeyOf(Content(line))) # << >>

\* C20: when the line just read is a well-formed tree, parent, author or
\* committer line and no `commit` line came before it, the parse has not
\* raised and goes on with the next line, and no commit has been made or
\* opened for it.
C20_FieldBeforeCommitDoesNotAbort ==
    (/\ pc \in {"loop", "raised"}
     /\ lines # << >>
     /\ IsWellFormedField(lines[Len(lines)])
     /\ CommitLineHashes(lines) = << >>)
        => /\ pc = "loop"
           /\ err = ""
           /\ currentCommit = None
           /\ commitObjs = << >>

====
